---------------------------- MODULE Spec2Model ----------------------------
(***************************************************************************)
(* Model of system_info_detection.py: the log_errors fault boundary, the   *)
(* nine detection probes, the run_detection loop, the print_info renderer  *)
(* and generate_output.                                                    *)
(*                                                                         *)
(* Python text is a sequence of one-character strings, so that iterating   *)
(* over a str (as str.join does) is an operation of the model.             *)
(***************************************************************************)
EXTENDS Integers, Sequences, FiniteSets, TLC

\* Largest number of records the management interface returns per query.
MaxRecords == 1

(***************************************************************************)
(* Python values                                                           *)
(***************************************************************************)
None == [t |-> "none"]
StrV(cs) == [t |-> "str", v |-> cs]
IntV(n) == [t |-> "int", v |-> n]
\* a float, kept in hundredths (round(x, 2) and round(x, 0) results)
FloatV(h) == [t |-> "float", v |-> h]
BoolV(b) == [t |-> "bool", v |-> b]
\* a tuple of str
TupleV(ss) == [t |-> "tuple", v |-> ss]
DictV(f) == [t |-> "dict", v |-> f]

NA == <<"N", "/", "A">>

\* bool(x)
Truthy(x) ==
    CASE x.t = "none" -> FALSE
      [] x.t = "str" -> Len(x.v) > 0
      [] x.t = "int" -> x.v # 0
      [] x.t = "float" -> x.v # 0
      [] x.t = "bool" -> x.v
      [] x.t = "tuple" -> Len(x.v) > 0
      [] x.t = "dict" -> DOMAIN x.v # {}

\* x or d
Or(x, d) == IF Truthy(x) THEN x ELSE d

Digit(d) == <<"0", "1", "2", "3", "4", "5", "6", "7", "8", "9">>[d + 1]

RECURSIVE Digits(_)
Digits(n) == IF n < 10 THEN <<Digit(n)>> ELSE Digits(n \div 10) \o <<Digit(n % 10)>>

\* str(x), as an f-string field formats it
Format(x) ==
    CASE x.t = "none" -> <<"N", "o", "n", "e">>
      [] x.t = "str" -> x.v
      [] x.t = "int" -> Digits(x.v)
      [] x.t = "float" ->
            Digits(x.v \div 100) \o <<".">> \o
            (IF x.v % 10 = 0 THEN <<Digit((x.v % 100) \div 10)>>
             ELSE <<Digit((x.v % 100) \div 10), Digit(x.v % 10)>>)
      [] x.t = "bool" -> IF x.v THEN <<"T", "r", "u", "e">>
                         ELSE <<"F", "a", "l", "s", "e">>

\* the items iterating over x yields: the characters of a str, the members of a tuple
Iter(x) ==
    IF x.t = "str" THEN [i \in 1..Len(x.v) |-> <<x.v[i]>>] ELSE x.v

RECURSIVE JoinSeq(_, _)
JoinSeq(sep, items) ==
    IF Len(items) = 0 THEN <<>>
    ELSE IF Len(items) = 1 THEN items[1]
    ELSE items[1] \o sep \o JoinSeq(sep, Tail(items))

\* sep.join(x)
Join(sep, x) == JoinSeq(sep, Iter(x))

LowerChar(c) ==
    CASE c = "G" -> "g"
      [] c = "A" -> "a"
      [] c = "U" -> "u"
      [] OTHER -> c

\* s.lower()
Lower(cs) == [i \in 1..Len(cs) |-> LowerChar(cs[i])]

\* x[:n]
Slice(cs, n) == SubSeq(cs, 1, IF Len(cs) < n THEN Len(cs) ELSE n)

\* 1024**3
GiB == 1073741824

DigitVal(c) == CHOOSE d \in 0..9 : Digit(d) = c

RECURSIVE ParseInt(_)
\* int(s) of a string of decimal digits
ParseInt(cs) ==
    IF Len(cs) = 0 THEN 0
    ELSE ParseInt(SubSeq(cs, 1, Len(cs) - 1)) * 10 + DigitVal(cs[Len(cs)])

\* round(int(b) / (1024**3), 2), in hundredths
RoundGiB2(b) == ((b \div 1024) * 100 + GiB \div 2048) \div (GiB \div 1024)

\* round(int(b) / (1024**3), 0), in hundredths
RoundGiB0(b) == ((b + GiB \div 2) \div GiB) * 100

(***************************************************************************)
(* Results of a call: a value, or the exception it raised                  *)
(***************************************************************************)
Return(v) == [exc |-> "none", val |-> v]
Raise(e) == [exc |-> e, val |-> None]

(***************************************************************************)
(* The management interface (wmi_service).  A world fixes what its queries *)
(* answer during one run: every query returns nrec records, and the        *)
(* properties of the records of category nullCat are all null.             *)
(***************************************************************************)
Categories ==
    {"host", "account", "os", "motherboard", "cpu", "ram", "gpu", "storage", "nic"}

Worlds ==
    {[nrec |-> 0, nullCat |-> "none"]} \cup
    [nrec : 1..MaxRecords, nullCat : Categories \cup {"none"}]

\* a property of a record of category cat
Prop(w, cat, real) == IF w.nullCat = cat THEN None ELSE real

Win32_ComputerSystem(w) ==
    [i \in 1..w.nrec |->
        [Caption |-> Prop(w, "host", StrV(<<"P", "C">>)),
         UserName |-> Prop(w, "host", StrV(<<"u">>)),
         Domain |-> Prop(w, "host", StrV(<<"W", "G">>))]]

Win32_OperatingSystem(w) ==
    [i \in 1..w.nrec |->
        [InstallDate |->
            Prop(w, "os", StrV(<<"2", "0", "2", "0", "0", "1", "0", "1", "0", "9">>))]]

\* the built-in Guest account comes first, then nrec user accounts
Win32_UserAccount(w) ==
    <<[Name |-> StrV(<<"G", "u", "e", "s", "t">>), Domain |-> StrV(<<"P", "C">>),
       SID |-> StrV(<<"S", "0">>), Disabled |-> BoolV(TRUE)]>> \o
    [i \in 1..w.nrec |->
        [Name |-> Prop(w, "account", StrV(<<"A", Digit(i)>>)),
         Domain |-> Prop(w, "account", StrV(<<"P", "C">>)),
         SID |-> Prop(w, "account", StrV(<<"S", Digit(i)>>)),
         Disabled |-> Prop(w, "account", BoolV(i % 2 = 0))]]

Win32_BaseBoard(w) ==
    [i \in 1..w.nrec |->
        [Manufacturer |-> Prop(w, "motherboard", StrV(<<"m">>)),
         Product |-> Prop(w, "motherboard", StrV(<<"p">>)),
         SerialNumber |-> Prop(w, "motherboard", StrV(<<"s">>))]]

Win32_Processor(w) ==
    [i \in 1..w.nrec |->
        [Name |-> Prop(w, "cpu", StrV(<<"c">>)),
         MaxClockSpeed |-> Prop(w, "cpu", IntV(3000)),
         NumberOfCores |-> Prop(w, "cpu", IntV(4)),
         NumberOfLogicalProcessors |-> Prop(w, "cpu", IntV(8))]]

Win32_PhysicalMemory(w) ==
    [i \in 1..w.nrec |->
        [Capacity |-> Prop(w, "ram", StrV(Digits(GiB + GiB \div 2))),
         Manufacturer |-> Prop(w, "ram", StrV(<<"r">>)),
         Speed |-> Prop(w, "ram", IntV(2400))]]

Win32_VideoController(w) ==
    [i \in 1..w.nrec |-> [Name |-> Prop(w, "gpu", StrV(<<"g">>))]]

\* odd-numbered disks are solid-state by caption
Win32_DiskDrive(w) ==
    [i \in 1..w.nrec |->
        [Caption |-> Prop(w, "storage",
                         StrV(IF i % 2 = 1 THEN <<"S", "S", "D">> ELSE <<"W", "D">>)),
         Size |-> Prop(w, "storage", StrV(Digits(GiB))),
         MediaType |-> Prop(w, "storage", StrV(<<"F", "i", "x">>))]]

\* disk.associators("Win32_DiskDriveToDiskPartition"): odd-numbered disks
\* have one partition, even-numbered disks none
Win32_DiskDriveToDiskPartition(w, i) ==
    IF i % 2 = 1 THEN <<1>> ELSE <<>>

\* partition.associators("Win32_LogicalDiskToPartition")
Win32_LogicalDiskToPartition(w, i, p) ==
    <<[Caption |-> Prop(w, "storage", StrV(<<"C", ":">>)),
       Size |-> Prop(w, "storage", StrV(Digits(GiB))),
       FreeSpace |-> Prop(w, "storage", StrV(<<"0">>))]>>

Win32_NetworkAdapterConfiguration(w) ==
    [i \in 1..w.nrec |->
        [Description |-> Prop(w, "nic", StrV(<<"n">>)),
         IPAddress |-> Prop(w, "nic", TupleV(<<<<"1", "0">>>>)),
         IPSubnet |-> Prop(w, "nic", TupleV(<<<<"2", "5", "5">>>>)),
         DefaultIPGateway |-> Prop(w, "nic", TupleV(<<<<"1">>>>)),
         DNSServerSearchOrder |-> Prop(w, "nic", TupleV(<<<<"8">>, <<"9">>>>)),
         DHCPEnabled |-> Prop(w, "nic", BoolV(TRUE))]]

(***************************************************************************)
(* The detection probes.  fail is the query against the session raising    *)
(* (wmi.x_wmi); the other exceptions follow from the data.                 *)
(***************************************************************************)
Last(s) == s[Len(s)]

\* the dict the loop leaves in host_info: the last computer's, {} if none
host_detection(w, fail) ==
    IF fail THEN Raise("x_wmi")
    ELSE LET computers == Win32_ComputerSystem(w)
         IN  IF Len(computers) = 0 THEN Return(DictV(<<>>))
             ELSE Return(DictV(
                    [hostname |-> Or(Last(computers).Caption, StrV(NA)),
                     username |-> Or(Last(computers).UserName, StrV(NA)),
                     domain |-> Or(Last(computers).Domain, StrV(NA))]))

platform_system == StrV(<<"W", "i", "n">>)
platform_architecture == StrV(<<"6", "4">>)
platform_win32_ver == <<StrV(<<"1", "0">>), StrV(<<>>)>>

IsDigits(cs) == \A i \in 1..Len(cs) : \E d \in 0..9 : Digit(d) = cs[i]

os_detection(w, fail) ==
    IF fail THEN Raise("x_wmi")
    ELSE LET systems == Win32_OperatingSystem(w)
         IN  IF Len(systems) = 0 THEN Raise("IndexError")
             ELSE IF systems[1].InstallDate.t # "str" THEN Raise("TypeError")
             ELSE LET install_date_str == Slice(systems[1].InstallDate.v, 8)
                  IN  IF Len(install_date_str) # 8 \/ ~IsDigits(install_date_str)
                      THEN Raise("ValueError")
                      ELSE Return(DictV(
                             [install_date |->
                                 Or(StrV(install_date_str \o <<" ", "(">> \o Digits(7)
                                         \o <<" ", "d", "a", "y", "s", " ", "a", "g", "o", ")">>),
                                    StrV(NA)),
                              name |-> Or(platform_system, StrV(NA)),
                              architecture |-> Or(platform_architecture, StrV(NA)),
                              version |-> Or(platform_win32_ver[1], StrV(NA)),
                              version_info |-> Or(platform_win32_ver[2], StrV(NA))]))

excluded_accounts ==
    {<<"d", "e", "f", "a", "u", "l", "t", "a", "c", "c", "o", "u", "n", "t">>,
     <<"w", "d", "a", "g", "u", "t", "i", "l", "i", "t", "y", "a", "c", "c", "o", "u", "n", "t">>,
     <<"g", "u", "e", "s", "t">>}

NotExcluded(account) == Lower(account.Name.v) \notin excluded_accounts

account_detection(w, fail) ==
    IF fail THEN Raise("x_wmi")
    ELSE LET accounts == Win32_UserAccount(w)
         IN  IF \E i \in 1..Len(accounts) : accounts[i].Name.t # "str"
             THEN Raise("AttributeError")
             ELSE LET user_accounts == SelectSeq(accounts, NotExcluded)
                  IN  Return(DictV(
                        [idx \in 1..Len(user_accounts) |->
                            [username |-> Or(user_accounts[idx].Name, StrV(NA)),
                             domain |-> Or(user_accounts[idx].Domain, StrV(NA)),
                             sid |-> Or(user_accounts[idx].SID, StrV(NA)),
                             disabled |->
                                 IF Truthy(user_accounts[idx].Disabled)
                                 THEN StrV(<<"Y", "e", "s">>) ELSE StrV(<<"N", "o">>)]]))

motherboard_detection(w, fail) ==
    IF fail THEN Raise("x_wmi")
    ELSE LET boards == Win32_BaseBoard(w)
         IN  Return(DictV(
               [idx \in 1..Len(boards) |->
                   [manufacturer |-> Or(boards[idx].Manufacturer, StrV(NA)),
                    model |-> Or(boards[idx].Product, StrV(NA)),
                    serial_number |-> Or(boards[idx].SerialNumber, StrV(NA))]]))

cpu_detection(w, fail) ==
    IF fail THEN Raise("x_wmi")
    ELSE LET cpus == Win32_Processor(w)
         IN  Return(DictV(
               [idx \in 1..Len(cpus) |->
                   [name |-> Or(cpus[idx].Name, StrV(NA)),
                    max_clock_speed |->
                        Or(StrV(Format(cpus[idx].MaxClockSpeed) \o <<" ", "M", "H", "z">>),
                           StrV(NA)),
                    cores |-> Or(cpus[idx].NumberOfCores, StrV(NA)),
                    threads |-> Or(cpus[idx].NumberOfLogicalProcessors, StrV(NA))]]))

ram_detection(w, fail) ==
    IF fail THEN Raise("x_wmi")
    ELSE LET rams == Win32_PhysicalMemory(w)
         IN  IF \E i \in 1..Len(rams) : rams[i].Capacity.t = "none"
             THEN Raise("TypeError")
             ELSE Return(DictV(
                    [idx \in 1..Len(rams) |->
                        [capacity |-> FloatV(RoundGiB2(ParseInt(rams[idx].Capacity.v))),
                         manufacturer |-> Or(rams[idx].Manufacturer, StrV(NA)),
                         speed |-> Or(rams[idx].Speed, StrV(NA))]]))

gpu_detection(w, fail) ==
    IF fail THEN Raise("x_wmi")
    ELSE LET gpus == Win32_VideoController(w)
         IN  Return(DictV(
               [idx \in 1..Len(gpus) |-> [name |-> Or(gpus[idx].Name, StrV(NA))]]))

\* sub in cs
Contains(sub, cs) ==
    \E i \in 1..(Len(cs) - Len(sub) + 1) : SubSeq(cs, i, i + Len(sub) - 1) = sub

\* one partition_info per logical disk of a disk's partitions, in traversal order
RECURSIVE PartitionInfos(_, _, _)
PartitionInfos(w, i, parts) ==
    IF Len(parts) = 0 THEN <<>>
    ELSE LET logical == Win32_LogicalDiskToPartition(w, i, parts[1])
         IN  [k \in 1..Len(logical) |->
                [name |-> logical[k].Caption,
                 total_size |->
                     IF logical[k].Size.t # "none"
                     THEN FloatV(RoundGiB0(ParseInt(logical[k].Size.v))) ELSE StrV(NA),
                 free_size |->
                     IF logical[k].FreeSpace.t # "none"
                     THEN FloatV(RoundGiB0(ParseInt(logical[k].FreeSpace.v)))
                     ELSE StrV(NA)]]
             \o PartitionInfos(w, i, Tail(parts))

storage_detection(w, fail) ==
    IF fail THEN Raise("x_wmi")
    ELSE LET disks == Win32_DiskDrive(w)
         IN  Return(DictV(
               [idx \in 1..Len(disks) |->
                   [name |-> Or(disks[idx].Caption, StrV(NA)),
                    size |->
                        IF disks[idx].Size.t # "none"
                        THEN FloatV(RoundGiB2(ParseInt(disks[idx].Size.v))) ELSE StrV(NA),
                    type |->
                        IF \/ Contains(<<"S", "S", "D">>, Or(disks[idx].MediaType, StrV(<<>>)).v)
                           \/ Contains(<<"S", "S", "D">>, Or(disks[idx].Caption, StrV(<<>>)).v)
                        THEN StrV(<<"S", "S", "D">>) ELSE StrV(<<"H", "D", "D">>),
                    partitions |->
                        PartitionInfos(w, idx, Win32_DiskDriveToDiskPartition(w, idx))]]))

nic_detection(w, fail) ==
    IF fail THEN Raise("x_wmi")
    ELSE LET nics == Win32_NetworkAdapterConfiguration(w)
         IN  Return(DictV(
               [idx \in 1..Len(nics) |->
                   [description |-> Or(nics[idx].Description, StrV(NA)),
                    ip_address |->
                        IF Truthy(nics[idx].IPAddress)
                        THEN StrV(nics[idx].IPAddress.v[1]) ELSE StrV(NA),
                    subnet_mask |->
                        IF Truthy(nics[idx].IPSubnet)
                        THEN StrV(nics[idx].IPSubnet.v[1]) ELSE StrV(NA),
                    default_gateway |->
                        IF Truthy(nics[idx].DefaultIPGateway)
                        THEN StrV(nics[idx].DefaultIPGateway.v[1]) ELSE StrV(NA),
                    dns_servers |->
                        IF Truthy(nics[idx].DNSServerSearchOrder)
                        THEN nics[idx].DNSServerSearchOrder ELSE StrV(NA),
                    dhcp_enabled |-> nics[idx].DHCPEnabled]]))

\* a registry in the order print_info shows the sections: os before account
detections_OsFirst ==
    <<[info_key |-> "host_info", func |-> "host_detection"],
      [info_key |-> "os_info", func |-> "os_detection"],
      [info_key |-> "account_info", func |-> "account_detection"],
      [info_key |-> "motherboard_info", func |-> "motherboard_detection"],
      [info_key |-> "cpu_info", func |-> "cpu_detection"],
      [info_key |-> "ram_info", func |-> "ram_detection"],
      [info_key |-> "gpu_info", func |-> "gpu_detection"],
      [info_key |-> "storage_info", func |-> "storage_detection"],
      [info_key |-> "nic_info", func |-> "nic_detection"]>>

\* the registry of run_detection: (info_key, detection_func) in call order
detections ==
    <<[info_key |-> "host_info", func |-> "host_detection"],
      [info_key |-> "account_info", func |-> "account_detection"],
      [info_key |-> "os_info", func |-> "os_detection"],
      [info_key |-> "motherboard_info", func |-> "motherboard_detection"],
      [info_key |-> "cpu_info", func |-> "cpu_detection"],
      [info_key |-> "ram_info", func |-> "ram_detection"],
      [info_key |-> "gpu_info", func |-> "gpu_detection"],
      [info_key |-> "storage_info", func |-> "storage_detection"],
      [info_key |-> "nic_info", func |-> "nic_detection"]>>

total_detections == Len(detections)

\* detection_func(wmi_service), before the fault boundary
Detect(func, w, fail) ==
    CASE func = "host_detection" -> host_detection(w, fail)
      [] func = "account_detection" -> account_detection(w, fail)
      [] func = "os_detection" -> os_detection(w, fail)
      [] func = "motherboard_detection" -> motherboard_detection(w, fail)
      [] func = "cpu_detection" -> cpu_detection(w, fail)
      [] func = "ram_detection" -> ram_detection(w, fail)
      [] func = "gpu_detection" -> gpu_detection(w, fail)
      [] func = "storage_detection" -> storage_detection(w, fail)
      [] func = "nic_detection" -> nic_detection(w, fail)

(***************************************************************************)
(* print_info: what a call prints, up to the statement that raises.        *)
(* Every print of a block is an item: its header (the print with end="")   *)
(* or one substituted field, text being the substituted value's text.      *)
(***************************************************************************)
Header(sec, idx, text) ==
    [kind |-> "header", sec |-> sec, idx |-> idx, sub |-> 0, label |-> "", text |-> text]
Field(sec, idx, sub, label, text) ==
    [kind |-> "field", sec |-> sec, idx |-> idx, sub |-> sub, label |-> label, text |-> text]

Printed(items) == [out |-> items, exc |-> "none", val |-> None]
\* a statement that raises e before printing anything
Raised(e) == [out |-> <<>>, exc |-> e, val |-> None]

\* statements in sequence: the second runs only when the first did not raise
Then(a, b) ==
    IF a.exc # "none" THEN a ELSE [out |-> a.out \o b.out, exc |-> b.exc, val |-> None]

RECURSIVE Concat(_)
Concat(ss) == IF Len(ss) = 0 THEN <<>> ELSE ss[1] \o Concat(Tail(ss))

PrintHost(host_info) ==
    Then(Printed(<<Header("host", 0, <<>>)>>),
         IF host_info.t # "dict" THEN Raised("TypeError")
         ELSE IF "hostname" \notin DOMAIN host_info.v THEN Raised("KeyError")
         ELSE Printed(<<Field("host", 0, 0, "Hostname", Format(host_info.v.hostname)),
                        Field("host", 0, 0, "Username", Format(host_info.v.username)),
                        Field("host", 0, 0, "Domain", Format(host_info.v.domain))>>))

PrintOs(os_info) ==
    Then(Printed(<<Header("os", 0, <<>>)>>),
         IF os_info.t # "dict" THEN Raised("TypeError")
         ELSE Printed(<<Field("os", 0, 0, "Description",
                              Format(os_info.v.name) \o <<" ">> \o Format(os_info.v.version)
                              \o <<" ">> \o Format(os_info.v.architecture) \o <<" ", "(">>
                              \o Format(os_info.v.version_info) \o <<")">>),
                        Field("os", 0, 0, "install_date", Format(os_info.v.install_date))>>))

AccountBlock(idx, info) ==
    <<Header("account", idx, <<>>),
      Field("account", idx, 0, "Username", Format(info.username)),
      Field("account", idx, 0, "Domain", Format(info.domain)),
      Field("account", idx, 0, "SID Number", Format(info.sid)),
      Field("account", idx, 0, "Disabled", Format(info.disabled))>>

MotherboardBlock(idx, info) ==
    <<Header("motherboard", idx, <<>>),
      Field("motherboard", idx, 0, "Manufacturer", Format(info.manufacturer)),
      Field("motherboard", idx, 0, "Product", Format(info.model)),
      Field("motherboard", idx, 0, "SerialNumber", Format(info.serial_number))>>

CpuBlock(idx, info) ==
    <<Header("cpu", idx, <<>>),
      Field("cpu", idx, 0, "Description", Format(info.name)),
      Field("cpu", idx, 0, "Clock Speed", Format(info.max_clock_speed)),
      Field("cpu", idx, 0, "Cores", Format(info.cores)),
      Field("cpu", idx, 0, "Threads", Format(info.threads))>>

RamBlock(idx, info) ==
    <<Header("ram", idx, <<>>),
      Field("ram", idx, 0, "Capacity", Format(info.capacity)),
      Field("ram", idx, 0, "Manufacturer", Format(info.manufacturer)),
      Field("ram", idx, 0, "Speed", Format(info.speed))>>

StorageBlock(idx, info) ==
    <<Header("storage", idx, Format(info.type)),
      Field("storage", idx, 0, "Description", Format(info.name)),
      Field("storage", idx, 0, "Size", Format(info.size))>> \o
    Concat([partition_idx \in 1..Len(info.partitions) |->
        <<[kind |-> "partition", sec |-> "storage", idx |-> idx, sub |-> partition_idx,
           label |-> "", text |-> <<>>],
          Field("storage", idx, partition_idx, "Letter",
                Format(info.partitions[partition_idx].name)),
          Field("storage", idx, partition_idx, "Size",
                Format(info.partitions[partition_idx].free_size) \o <<"/">> \o
                Format(info.partitions[partition_idx].total_size))>>])

GpuBlock(idx, info) ==
    <<Header("gpu", idx, <<>>),
      Field("gpu", idx, 0, "Description", Format(info.name))>>

NicBlock(idx, info) ==
    <<Header("nic", idx, <<>>),
      Field("nic", idx, 0, "Description", Format(info.description)),
      Field("nic", idx, 0, "IP Address", Format(info.ip_address)),
      Field("nic", idx, 0, "Subnet Mask", Format(info.subnet_mask)),
      Field("nic", idx, 0, "DefaultGateway", Format(info.default_gateway)),
      Field("nic", idx, 0, "DNS Servers", Join(<<",", " ">>, info.dns_servers)),
      Field("nic", idx, 0, "DHCP Enabled",
            IF Truthy(info.dhcp_enabled) THEN <<"Y", "e", "s">> ELSE <<"N", "o">>)>>

\* d.items() of a numbered dict, in insertion order (nothing when d is None)
DictItems(d) == IF d.t = "dict" THEN d.v ELSE <<>>

\* for idx, info in d.items(): the blocks printed, AttributeError when d is None
ForItems(d, blocks) ==
    IF d.t # "dict" THEN Raised("AttributeError") ELSE Printed(Concat(blocks))

\* the blocks of the numbered dicts of the snapshot
AccountBlocks(d) == [idx \in 1..Len(DictItems(d)) |-> AccountBlock(idx, DictItems(d)[idx])]
MotherboardBlocks(d) ==
    [idx \in 1..Len(DictItems(d)) |-> MotherboardBlock(idx, DictItems(d)[idx])]
CpuBlocks(d) == [idx \in 1..Len(DictItems(d)) |-> CpuBlock(idx, DictItems(d)[idx])]
RamBlocks(d) == [idx \in 1..Len(DictItems(d)) |-> RamBlock(idx, DictItems(d)[idx])]
StorageBlocks(d) == [idx \in 1..Len(DictItems(d)) |-> StorageBlock(idx, DictItems(d)[idx])]
GpuBlocks(d) == [idx \in 1..Len(DictItems(d)) |-> GpuBlock(idx, DictItems(d)[idx])]
NicBlocks(d) == [idx \in 1..Len(DictItems(d)) |-> NicBlock(idx, DictItems(d)[idx])]

\* a renderer that shows the GPU blocks before the storage blocks
print_info_GpuFirst(system_info) ==
    Then(PrintHost(system_info["host_info"]),
    Then(PrintOs(system_info["os_info"]),
    Then(ForItems(system_info["account_info"], AccountBlocks(system_info["account_info"])),
    Then(ForItems(system_info["motherboard_info"], MotherboardBlocks(system_info["motherboard_info"])),
    Then(ForItems(system_info["cpu_info"], CpuBlocks(system_info["cpu_info"])),
    Then(ForItems(system_info["ram_info"], RamBlocks(system_info["ram_info"])),
    Then(ForItems(system_info["gpu_info"], GpuBlocks(system_info["gpu_info"])),
    Then(ForItems(system_info["storage_info"], StorageBlocks(system_info["storage_info"])),
         ForItems(system_info["nic_info"], NicBlocks(system_info["nic_info"]))))))))))

\* the body of print_info: [out, exc], out being what was printed before exc
print_info(system_info) ==
    Then(PrintHost(system_info["host_info"]),
    Then(PrintOs(system_info["os_info"]),
    Then(ForItems(system_info["account_info"], AccountBlocks(system_info["account_info"])),
    Then(ForItems(system_info["motherboard_info"], MotherboardBlocks(system_info["motherboard_info"])),
    Then(ForItems(system_info["cpu_info"], CpuBlocks(system_info["cpu_info"])),
    Then(ForItems(system_info["ram_info"], RamBlocks(system_info["ram_info"])),
    Then(ForItems(system_info["storage_info"], StorageBlocks(system_info["storage_info"])),
    Then(ForItems(system_info["gpu_info"], GpuBlocks(system_info["gpu_info"])),
         ForItems(system_info["nic_info"], NicBlocks(system_info["nic_info"]))))))))))

(***************************************************************************)
(* The program                                                             *)
(***************************************************************************)
VARIABLES
    os_name,      \* os.name
    world,        \* what the management interface answers in this run
    pc,           \* the statement the program is at
    idx,          \* the loop index of run_detection
    wmi_service,  \* the session: "unset" or "connected"
    system_info,  \* the snapshot: info_key -> probe result
    stdout,       \* sys.stdout: "console" or "file"
    console,      \* what was printed on the terminal, in order
    error_log,    \* the records logger.error appended to logs/error.json
    info_dir,     \* whether the info directory exists
    file,         \* the output file at output_file_path
    calls,        \* the detection functions invoked, in order
    thrown        \* the functions whose body raised

vars ==
    <<os_name, world, pc, idx, wmi_service, system_info, stdout, console,
      error_log, info_dir, file, calls, thrown>>

Item(kind, sec, i, n) ==
    [kind |-> kind, sec |-> sec, idx |-> i, sub |-> n, label |-> "", text |-> <<>>]

\* type(e).__name__.lower()
LowerName(e) ==
    CASE e = "TypeError" -> "typeerror"
      [] e = "KeyError" -> "keyerror"
      [] e = "IndexError" -> "indexerror"
      [] e = "ValueError" -> "valueerror"
      [] e = "AttributeError" -> "attributeerror"
      [] e = "OSError" -> "oserror"
      [] e = "ZeroDivisionError" -> "zerodivisionerror"
      [] OTHER -> e

\* a logger with two handlers attached: every record is written twice
log_error_Twice(func, error, log) ==
    log \o <<[function |-> func, type |-> LowerName(error)],
             [function |-> func, type |-> LowerName(error)]>>

\* log_error: one record appended to the error log
log_error(func, error, log) ==
    Append(log, [function |-> func, type |-> LowerName(error)])

\* the wrapper of log_errors around a call of func that ended as res:
\* the value the caller gets and the error log afterwards
log_errors(func, res, log) ==
    IF res.exc = "none" THEN [ret |-> res.val, log |-> log]
    ELSE [ret |-> None, log |-> log_error(func, res.exc, log)]

Init ==
    /\ os_name \in {"nt", "posix"}
    /\ world \in Worlds
    /\ pc = "import"
    /\ idx = 0
    /\ wmi_service = "unset"
    /\ system_info = <<>>
    /\ stdout = "console"
    /\ console = <<>>
    /\ error_log = <<>>
    /\ info_dir \in BOOLEAN
    /\ file = [exists |-> FALSE, open |-> FALSE, content |-> <<>>]
    /\ calls = <<>>
    /\ thrown = {}

\* module level: print(example_function(1, 0))
example_function ==
    /\ pc = "import"
    /\ LET r == log_errors("example_function", Raise("ZeroDivisionError"), error_log)
       IN  /\ error_log' = r.log
           /\ console' = Append(console,
                                [Item("print", "example_function", 0, 0)
                                    EXCEPT !.text = Format(r.ret)])
    /\ pc' = "main"
    /\ UNCHANGED <<os_name, world, idx, wmi_service, system_info, stdout, info_dir,
                   file, calls, thrown>>

\* main: clear_terminal()
main_clear_terminal ==
    /\ pc = "main"
    /\ console' = Append(console, Item("clear", "main", 0, 0))
    /\ pc' = "main_os"
    /\ UNCHANGED <<os_name, world, idx, wmi_service, system_info, stdout, error_log,
                   info_dir, file, calls, thrown>>

\* a platform check that lets every platform through
IsWindows_Always == TRUE

\* main: os.name == "nt"
IsWindows == os_name = "nt"

\* main: the else branch of os.name == "nt"
main_unsupported ==
    /\ pc = "main_os"
    /\ ~IsWindows
    /\ console' = Append(console, Item("unsupported", "main", 0, 0))
    /\ pc' = "done"
    /\ UNCHANGED <<os_name, world, idx, wmi_service, system_info, stdout, error_log,
                   info_dir, file, calls, thrown>>

\* run_detection: system_info = {}; wmi_service = wmi.WMI(), which may raise
run_detection ==
    /\ pc = "main_os"
    /\ IsWindows
    /\ \E connected \in BOOLEAN :
          IF connected
          THEN /\ wmi_service' = "connected"
               /\ idx' = 1
               /\ pc' = "init"
               /\ UNCHANGED error_log
          ELSE /\ error_log' = log_errors("run_detection", Raise("x_wmi"), error_log).log
               /\ pc' = "done"
               /\ UNCHANGED <<wmi_service, idx>>
    /\ system_info' = <<>>
    /\ UNCHANGED <<os_name, world, stdout, console, info_dir, file, calls, thrown>>

\* the loop body before the call: the INITIALIZING message
progress_start ==
    /\ pc = "init"
    /\ console' = Append(console,
                         Item("INITIALIZING", detections[idx].func, idx, total_detections))
    /\ pc' = "detect"
    /\ UNCHANGED <<os_name, world, idx, wmi_service, system_info, stdout, error_log,
                   info_dir, file, calls, thrown>>

\* a store that leaves out the key of a probe that returned None
Store_SkipNone(info, info_key, value) ==
    IF value.t = "none" THEN info
    ELSE [k \in DOMAIN info \cup {info_key} |-> IF k = info_key THEN value ELSE info[k]]

\* system_info[info_key] = value
Store(info, info_key, value) ==
    [k \in DOMAIN info \cup {info_key} |-> IF k = info_key THEN value ELSE info[k]]

\* perform_detection: system_info[info_key] = detection_func(wmi_service)
perform_detection ==
    /\ pc = "detect"
    /\ \E fail \in BOOLEAN :
          LET func == detections[idx].func
              res == Detect(func, world, fail)
              r == log_errors(func, res, error_log)
          IN  /\ system_info' = Store(system_info, detections[idx].info_key, r.ret)
              /\ error_log' = r.log
              /\ calls' = Append(calls, func)
              /\ thrown' = IF res.exc # "none" THEN thrown \cup {func} ELSE thrown
    /\ pc' = "ok"
    /\ UNCHANGED <<os_name, world, idx, wmi_service, stdout, console, info_dir, file>>

\* perform_detection: the OK message, and the loop's next iteration
progress_ok ==
    /\ pc = "ok"
    /\ console' = Append(console, Item("OK", detections[idx].func, idx, total_detections))
    /\ IF idx < total_detections
       THEN idx' = idx + 1 /\ pc' = "init"
       ELSE idx' = idx /\ pc' = "clear"
    /\ UNCHANGED <<os_name, world, wmi_service, system_info, stdout, error_log,
                   info_dir, file, calls, thrown>>

\* run_detection: clear_terminal()
run_clear_terminal ==
    /\ pc = "clear"
    /\ console' = Append(console, Item("clear", "run_detection", 0, 0))
    /\ pc' = "print"
    /\ UNCHANGED <<os_name, world, idx, wmi_service, system_info, stdout, error_log,
                   info_dir, file, calls, thrown>>

\* print(...) of items: to the stream sys.stdout names
Emit(items) ==
    IF stdout = "console"
    THEN console' = console \o items /\ file' = file
    ELSE file' = [file EXCEPT !.content = @ \o items] /\ console' = console

\* run_detection: print_info(system_info), under its fault boundary
run_print_info ==
    /\ pc = "print"
    /\ LET res == print_info(system_info)
       IN  /\ Emit(res.out)
           /\ error_log' = log_errors("print_info", res, error_log).log
           /\ thrown' = IF res.exc # "none" THEN thrown \cup {"print_info"} ELSE thrown
    /\ pc' = "gen_dir"
    /\ UNCHANGED <<os_name, world, idx, wmi_service, system_info, stdout, info_dir, calls>>

\* generate_output returns through its fault boundary after raising OSError
GenRaise ==
    /\ error_log' = log_errors("generate_output", Raise("OSError"), error_log).log
    /\ thrown' = thrown \cup {"generate_output"}
    /\ pc' = "done"

\* generate_output: if not os.path.exists(info_dir): os.makedirs(info_dir)
gen_makedirs ==
    /\ pc = "gen_dir"
    /\ IF info_dir
       THEN pc' = "gen_open" /\ UNCHANGED <<info_dir, error_log, thrown>>
       ELSE \E made \in BOOLEAN :
               IF made
               THEN info_dir' = TRUE /\ pc' = "gen_open" /\ UNCHANGED <<error_log, thrown>>
               ELSE GenRaise /\ UNCHANGED info_dir
    /\ UNCHANGED <<os_name, world, idx, wmi_service, system_info, stdout, console,
                   file, calls>>

\* an open that leaves sys.stdout on the terminal
gen_open_NoRedirect ==
    /\ pc = "gen_open"
    /\ \E opened \in BOOLEAN :
          IF opened
          THEN /\ file' = [exists |-> TRUE, open |-> TRUE, content |-> <<>>]
               /\ stdout' = stdout
               /\ pc' = "gen_print"
               /\ UNCHANGED <<error_log, thrown>>
          ELSE GenRaise /\ UNCHANGED <<file, stdout>>
    /\ UNCHANGED <<os_name, world, idx, wmi_service, system_info, console, info_dir, calls>>

\* generate_output: with open(output_file_path, "w") as f: sys.stdout = f
gen_open ==
    /\ pc = "gen_open"
    /\ \E opened \in BOOLEAN :
          IF opened
          THEN /\ file' = [exists |-> TRUE, open |-> TRUE, content |-> <<>>]
               /\ stdout' = "file"
               /\ pc' = "gen_print"
               /\ UNCHANGED <<error_log, thrown>>
          ELSE GenRaise /\ UNCHANGED <<file, stdout>>
    /\ UNCHANGED <<os_name, world, idx, wmi_service, system_info, console, info_dir, calls>>

\* the places where a buffered write to the file can reach the disk and fail:
\* before a block's first print
FlushPoints(out) == {p \in 1..Len(out) : out[p].kind = "header"}

\* print_info writing to the file, the write of item p raising OSError (p = 0: none does)
PrintInfoToFile(info, p) ==
    LET res == print_info(info)
    IN  IF p = 0 THEN res
        ELSE [out |-> SubSeq(res.out, 1, p - 1), exc |-> "OSError", val |-> None]

\* generate_output: print_info(system_info) with sys.stdout redirected
gen_print_info ==
    /\ pc = "gen_print"
    /\ \E p \in {0} \cup FlushPoints(print_info(system_info).out) :
          LET res == PrintInfoToFile(system_info, p)
          IN  /\ Emit(res.out)
              /\ error_log' = log_errors("print_info", res, error_log).log
              /\ thrown' = IF res.exc # "none" THEN thrown \cup {"print_info"} ELSE thrown
    /\ pc' = "gen_close"
    /\ UNCHANGED <<os_name, world, idx, wmi_service, system_info, stdout, info_dir, calls>>

\* generate_output: sys.stdout = sys.__stdout__, then the with block closes f,
\* which flushes what is buffered and may raise
gen_close ==
    /\ pc = "gen_close"
    /\ stdout' = "console"
    /\ file' = [file EXCEPT !.open = FALSE]
    /\ \E closed \in BOOLEAN :
          IF closed
          THEN pc' = "gen_success" /\ UNCHANGED <<error_log, thrown>>
          ELSE GenRaise
    /\ UNCHANGED <<os_name, world, idx, wmi_service, system_info, console, info_dir, calls>>

\* generate_output: the "Exported system information successfully" message
gen_success ==
    /\ pc = "gen_success"
    /\ console' = Append(console, Item("exported", "generate_output", 0, 0))
    /\ pc' = "done"
    /\ UNCHANGED <<os_name, world, idx, wmi_service, system_info, stdout, error_log,
                   info_dir, file, calls, thrown>>

Next ==
    \/ example_function
    \/ main_clear_terminal
    \/ main_unsupported
    \/ run_detection
    \/ progress_start
    \/ perform_detection
    \/ progress_ok
    \/ run_clear_terminal
    \/ run_print_info
    \/ gen_makedirs
    \/ gen_open
    \/ gen_print_info
    \/ gen_close
    \/ gen_success

Spec == Init /\ [][Next]_vars

(***************************************************************************)
(* Vocabulary of the properties                                            *)
(***************************************************************************)
\* the nine keys print_info reads from the snapshot
DeclaredKeys ==
    {"host_info", "account_info", "os_info", "motherboard_info", "cpu_info",
     "ram_info", "gpu_info", "storage_info", "nic_info"}

\* the declared collection order
DeclaredOrder ==
    <<"host_detection", "account_detection", "os_detection", "motherboard_detection",
      "cpu_detection", "ram_detection", "gpu_detection", "storage_detection",
      "nic_detection">>

DeclaredKeyOrder ==
    <<"host_info", "account_info", "os_info", "motherboard_info", "cpu_info",
      "ram_info", "gpu_info", "storage_info", "nic_info">>

ProbeFuncs == {DeclaredOrder[i] : i \in 1..Len(DeclaredOrder)}

\* the section of the report that shows a key of the snapshot
SectionOf(info_key) ==
    CASE info_key = "host_info" -> "host"
      [] info_key = "account_info" -> "account"
      [] info_key = "os_info" -> "os"
      [] info_key = "motherboard_info" -> "motherboard"
      [] info_key = "cpu_info" -> "cpu"
      [] info_key = "ram_info" -> "ram"
      [] info_key = "gpu_info" -> "gpu"
      [] info_key = "storage_info" -> "storage"
      [] info_key = "nic_info" -> "nic"

\* how many items of a kind were printed, how many records name a function
CountKind(seq, kind) == Cardinality({i \in 1..Len(seq) : seq[i].kind = kind})
CountFunction(log, func) == Cardinality({i \in 1..Len(log) : log[i].function = func})

IsReportItem(item) == item.kind \in {"header", "field", "partition"}
IsProgress(item) == item.kind \in {"INITIALIZING", "OK"}

\* the report as printed on the terminal
ConsoleReport == SelectSeq(console, IsReportItem)
\* the progress events, in the order printed
Progress == SelectSeq(console, IsProgress)

\* the loop of run_detection has run to its end
Collected == pc \in {"clear", "print", "gen_dir", "gen_open", "gen_print", "gen_close",
                     "gen_success"}
             \/ (pc = "done" /\ wmi_service = "connected")

\* the console report has been printed
Reported == pc \in {"gen_dir", "gen_open", "gen_print", "gen_close", "gen_success"}
            \/ (pc = "done" /\ wmi_service = "connected")

(***************************************************************************)
(* C1: whatever subset of the probes throws, once the session is           *)
(* constructed and the loop has run the snapshot holds exactly the nine    *)
(* declared keys when rendering starts (and from then on).                 *)
(***************************************************************************)
C1_SnapshotHasDeclaredKeys == Collected => DOMAIN system_info = DeclaredKeys

\* rendering is about to start after some probes, not all, threw
C1_Witness ==
    /\ pc = "print"
    /\ "cpu_detection" \in thrown
    /\ "nic_detection" \in thrown
    /\ "host_detection" \notin thrown
    /\ DOMAIN system_info = DeclaredKeys

(***************************************************************************)
(* C2: the value stored under a probe's key is never None; a probe that    *)
(* threw leaves an empty mapping there.                                    *)
(***************************************************************************)
C2_SafeDefaultStored ==
    \A i \in 1..Len(detections) :
        detections[i].info_key \in DOMAIN system_info =>
            /\ system_info[detections[i].info_key].t # "none"
            /\ detections[i].func \in thrown =>
                   /\ system_info[detections[i].info_key].t = "dict"
                   /\ DOMAIN system_info[detections[i].info_key].v = {}

(***************************************************************************)
(* C3: the report shows the section of every probe that succeeded, on the  *)
(* console and in the file; only the categories that failed are empty.     *)
(***************************************************************************)
\* out shows the section of info_key holding value: the fields of host and
\* os (when there are any), one block per record of the other categories
SectionRendered(out, info_key, value) ==
    LET sec == SectionOf(info_key)
        fields == {i \in 1..Len(out) : out[i].sec = sec /\ out[i].kind = "field"}
        headers == {i \in 1..Len(out) : out[i].sec = sec /\ out[i].kind = "header"}
    IN  IF sec \in {"host", "os"} THEN DOMAIN value.v = {} \/ fields # {}
        ELSE Cardinality(headers) = Len(value.v)

SucceededRendered(out) ==
    \A i \in 1..Len(detections) :
        detections[i].func \notin thrown =>
            SectionRendered(out, detections[i].info_key, system_info[detections[i].info_key])

C3_DegradedPerCategory ==
    /\ Reported => SucceededRendered(ConsoleReport)
    /\ pc = "gen_success" => SucceededRendered(file.content)

(***************************************************************************)
(* C4: the error log holds exactly one record naming each probe that       *)
(* threw and none naming a probe that did not; run_detection itself sees   *)
(* no probe failure.                                                       *)
(***************************************************************************)
C4_OneErrorRecordPerThrowingProbe ==
    /\ \A f \in ProbeFuncs :
          CountFunction(error_log, f) = IF f \in thrown THEN 1 ELSE 0
    /\ wmi_service = "connected" => CountFunction(error_log, "run_detection") = 0

\* a finished run in which some probes threw and another did not
C4_Witness ==
    /\ pc = "done"
    /\ {"cpu_detection", "storage_detection"} \subseteq thrown
    /\ "ram_detection" \notin thrown
    /\ CountFunction(error_log, "cpu_detection") = 1

(***************************************************************************)
(* C5: progress events come in the declared order, one (start, complete)   *)
(* pair per probe whether it succeeds or throws; a probe's start precedes  *)
(* its call, its result is stored before its complete event, and its       *)
(* complete event precedes the next probe's start.                         *)
(***************************************************************************)
Starts == CountKind(console, "INITIALIZING")
Completes == CountKind(console, "OK")

C5_ProgressOrder ==
    /\ LET events == Progress
       IN  \A j \in 1..Len(events) :
              /\ events[j].kind = IF j % 2 = 1 THEN "INITIALIZING" ELSE "OK"
              /\ events[j].sec = DeclaredOrder[(j + 1) \div 2]
              /\ events[j].idx = (j + 1) \div 2
              /\ events[j].sub = Len(DeclaredOrder)
    /\ Completes <= Len(calls)
    /\ Len(calls) <= Starts
    /\ calls = SubSeq(DeclaredOrder, 1, Len(calls))
    /\ DOMAIN system_info = {DeclaredKeyOrder[i] : i \in 1..Len(calls)}
    /\ Collected => Len(Progress) = 2 * Len(DeclaredOrder)

\* the loop has ended after some probes threw and others succeeded
C5_Witness ==
    /\ pc = "clear"
    /\ {"host_detection", "gpu_detection"} \subseteq thrown
    /\ "account_detection" \notin thrown
    /\ Len(Progress) = 18

(***************************************************************************)
(* C6: when generate_output meets no failure of the sink, the text in the  *)
(* output file is the report printed on the console, item for item, also   *)
(* when probes failed; and the renderings leave the snapshot as it was.    *)
(***************************************************************************)
NoSinkFailure == \A i \in 1..Len(error_log) : error_log[i].type # "oserror"

C6_FileWritten == pc \in {"gen_close", "gen_success"} \/ (pc = "done" /\ file.exists)

C6_SameReport == (C6_FileWritten /\ NoSinkFailure) => file.content = ConsoleReport

C6_SnapshotKept == Collected => system_info' = system_info

C7_UnsupportedPlatform ==
    os_name # "nt" =>
        /\ wmi_service = "unset"
        /\ calls = <<>>
        /\ Len(Progress) = 0
        /\ ~file.exists
        /\ thrown = {}
        /\ \A i \in 1..Len(error_log) : error_log[i].function = "example_function"
        /\ \A i \in 1..Len(console) :
              console[i].sec = "main" => console[i].kind \in {"clear", "unsupported"}
        /\ \A i \in 1..Len(console) : console[i].sec \in {"example_function", "main"}
        /\ CountKind(console, "unsupported") = IF pc = "done" THEN 1 ELSE 0

\* main has ended on a platform that is not Windows
C7_Witness ==
    /\ os_name # "nt"
    /\ pc = "done"
    /\ console[Len(console)].kind = "unsupported"

(***************************************************************************)
(* C8: a file at the output path is never partial: whenever it exists it   *)
(* holds the complete report, print_info having rendered every section of  *)
(* the snapshot into it.                                                   *)
(***************************************************************************)
C8_NoPartialFile ==
    file.exists =>
        /\ print_info(system_info).exc = "none"
        /\ file.content = print_info(system_info).out

(***************************************************************************)
(* C9: when generate_output fails to create the directory or to open or    *)
(* write the file, the terminal shows exactly one failure message and no   *)
(* success message, the console report being already printed.              *)
(***************************************************************************)
SinkFailed == ~NoSinkFailure

C9_SinkFailureReported ==
    (pc = "done" /\ SinkFailed) =>
        /\ CountKind(console, "failed") = 1
        /\ CountKind(console, "exported") = 0
        /\ ConsoleReport = print_info(system_info).out

(***************************************************************************)
(* C10: a field whose stored value is unavailable (None or the "N/A"       *)
(* sentinel) is rendered as the literal N/A, in every category.            *)
(***************************************************************************)
\* the key of a block's record that a label of the report shows
FieldOfLabel(sec, label) ==
    CASE label = "Hostname" -> "hostname"
      [] label = "Username" -> "username"
      [] label = "Domain" -> "domain"
      [] label = "install_date" -> "install_date"
      [] label = "SID Number" -> "sid"
      [] label = "Disabled" -> "disabled"
      [] label = "Manufacturer" -> "manufacturer"
      [] label = "Product" -> "model"
      [] label = "SerialNumber" -> "serial_number"
      [] label = "Description" /\ sec = "nic" -> "description"
      [] label = "Description" /\ sec # "nic" -> "name"
      [] label = "Clock Speed" -> "max_clock_speed"
      [] label = "Cores" -> "cores"
      [] label = "Threads" -> "threads"
      [] label = "Capacity" -> "capacity"
      [] label = "Speed" -> "speed"
      [] label = "Size" -> "size"
      [] label = "Letter" -> "name"
      [] label = "IP Address" -> "ip_address"
      [] label = "Subnet Mask" -> "subnet_mask"
      [] label = "DefaultGateway" -> "default_gateway"
      [] label = "DNS Servers" -> "dns_servers"
      [] label = "DHCP Enabled" -> "dhcp_enabled"

KeyOfSection(sec) == CHOOSE k \in DeclaredKeys : SectionOf(k) = sec

\* the items that print one stored field
ShowsOneField(item) ==
    /\ item.kind = "field"
    /\ ~(item.sec = "os" /\ item.label = "Description")
    /\ ~(item.sec = "storage" /\ item.sub > 0 /\ item.label = "Size")

\* the value in the snapshot that a field item of the report shows
StoredValue(item) ==
    LET d == system_info[KeyOfSection(item.sec)].v
        rec == IF item.sec \in {"host", "os"} THEN d
               ELSE IF item.sub > 0 THEN d[item.idx].partitions[item.sub]
               ELSE d[item.idx]
    IN  rec[FieldOfLabel(item.sec, item.label)]

Unavailable(value) == value.t = "none" \/ (value.t = "str" /\ value.v = NA)

UnavailableAsNA(out) ==
    \A j \in 1..Len(out) :
        (ShowsOneField(out[j]) /\ Unavailable(StoredValue(out[j]))) => out[j].text = NA

C10_UnavailableRendersNA ==
    /\ Reported => UnavailableAsNA(ConsoleReport)
    /\ pc = "gen_success" => UnavailableAsNA(file.content)

(***************************************************************************)
(* C11: the report shows its sections in a fixed category order, the       *)
(* blocks of a category numbered from 1 and a disk's partitions nested in  *)
(* the disk's block: every block of an earlier category precedes every     *)
(* block of a later one.  As claimed the order puts gpu before storage;    *)
(* print_info puts storage before gpu.                                     *)
(***************************************************************************)
\* the order as claimed
ClaimedSectionOrder ==
    <<"host", "os", "account", "motherboard", "cpu", "ram", "gpu", "storage", "nic">>

\* the order of the statements of print_info
RenderedSectionOrder ==
    <<"host", "os", "account", "motherboard", "cpu", "ram", "storage", "gpu", "nic">>

PositionIn(order, sec) == CHOOSE i \in 1..Len(order) : order[i] = sec

\* no item of a later section precedes an item of an earlier one
SectionsInOrder(out, order) ==
    \A i \in 1..(Len(out) - 1) :
        PositionIn(order, out[i].sec) <= PositionIn(order, out[i + 1].sec)

\* the blocks of a category are numbered 1, 2, ... in the order shown (host
\* and os have one unnumbered block), and every other item belongs to the
\* block whose header precedes it
BlocksNumbered(out) ==
    \A i \in 1..Len(out) :
        IF out[i].kind = "header"
        THEN out[i].idx =
                IF out[i].sec \in {"host", "os"} THEN 0
                ELSE 1 + Cardinality({j \in 1..(i - 1) :
                                        out[j].kind = "header" /\ out[j].sec = out[i].sec})
        ELSE /\ i > 1
             /\ out[i - 1].sec = out[i].sec
             /\ out[i - 1].idx = out[i].idx

\* a disk's partitions are numbered from 1 inside the disk's block
PartitionsNested(out) ==
    \A i \in 1..Len(out) :
        out[i].kind = "partition" =>
            /\ out[i].sec = "storage"
            /\ out[i].sub =
                  1 + Cardinality({j \in 1..(i - 1) :
                                     out[j].kind = "partition" /\ out[j].idx = out[i].idx})

ReportOrdered(out, order) ==
    SectionsInOrder(out, order) /\ BlocksNumbered(out) /\ PartitionsNested(out)

=============================================================================
